---- MODULE Spec2Model ----
(***************************************************************************)
(* Model of extensions/hearthstone/hearthstone.py: the Hearthstone cog's    *)
(* card cache (_set_cards and its helpers), the cleaning and formatting of  *)
(* the card list (_clean_cards_dict, _format_card) and the fuzzy lookup     *)
(* (_find_card with its local calc_levenshtein_distance).                   *)
(*                                                                         *)
(* Python strings are sequences of one-character strings.  Python floats    *)
(* are exact rationals <<numerator, denominator>> with a positive           *)
(* denominator, kept in lowest terms.  A dict keeps its keys in the order   *)
(* of their first insertion (Python 3.7 and later).                         *)
(***************************************************************************)
EXTENDS Integers, Sequences, FiniteSets, TLC

VARIABLES
    \* --- the cards file, the remote server and one run of _set_cards
    now,            \* the wall clock, in seconds
    fileExists,     \* whether cards.json exists
    fileTime,       \* st_mtime of cards.json
    fileContent,    \* the text of cards.json
    remoteTime,     \* the server's Last-Modified
    remoteVersion,  \* which card array the server serves
    local_time,     \* _set_cards: local_time of the last run
    server_time,    \* _set_cards: server_time of the last run
    io,             \* the file and network operations the last run issued
    set_cards_ret,  \* what the last run returned (or raised)
    runs,           \* how many runs of _set_cards have completed
    \* --- calc_levenshtein_distance
    s1, s2, dist, lev_pc,
    \* --- self.cards, _clean_cards_dict and _find_card
    raw_cards,      \* the list _set_cards returned, before cleaning
    cards,          \* self.cards
    index_pc,       \* "raw" | "clean" | "found"
    query,          \* the query of the last _find_card
    min_match,      \* its min_match
    result,         \* what it returned (or raised)
    \* --- _format_card on one card
    raw_card, card, format_pc

cacheVars  == <<now, fileExists, fileTime, fileContent, remoteTime, remoteVersion,
                local_time, server_time, io, set_cards_ret, runs>>
levVars    == <<s1, s2, dist, lev_pc>>
indexVars  == <<raw_cards, cards, index_pc, query, min_match, result>>
formatVars == <<raw_card, card, format_pc>>
vars       == <<cacheVars, levVars, indexVars, formatVars>>

-----------------------------------------------------------------------------
(* Python built-ins used by the code *)

Min2(a, b) == IF a <= b THEN a ELSE b
Max2(a, b) == IF a >= b THEN a ELSE b
Min3(a, b, c) == Min2(a, Min2(b, c))

RECURSIVE Gcd(_, _)
Gcd(a, b) == IF b = 0 THEN a ELSE Gcd(b, a % b)

\* All sequences over alphabet A of length at most n.
RECURSIVE StringsUpTo(_, _)
StringsUpTo(A, n) ==
    IF n = 0 THEN {<< >>}
    ELSE LET shorter == StringsUpTo(A, n - 1)
         IN  shorter \cup {Append(s, c) : s \in shorter, c \in A}

-----------------------------------------------------------------------------
(* calc_levenshtein_distance, hearthstone.py lines 189-207 *)

\* range(len(s2) + 1)
PyRange(n) == [k \in 1..n |-> k - 1]

\* Lines 200-204: the inner loop over s2 for one character c1 of s1.  The
\* position in s2 is told by the row built so far: Python's j is
\* len(current_row) - 1.
RECURSIVE LevInnerLoop(_, _, _, _)
LevInnerLoop(c1, t, previous_row, current_row) ==
    LET j == Len(current_row)
    IN  IF j > Len(t) THEN current_row
        ELSE LET insertions    == previous_row[j + 1] + 1
                 deletions     == current_row[j] + 1
                 substitutions == previous_row[j] + (IF c1 # t[j] THEN 1 ELSE 0)
             IN  LevInnerLoop(c1, t, previous_row,
                              Append(current_row, Min3(insertions, deletions, substitutions)))

\* Lines 198-205: the outer loop over s1; i is Python's i + 1.
RECURSIVE LevOuterLoop(_, _, _, _)
LevOuterLoop(s, t, previous_row, i) ==
    IF i > Len(s) THEN previous_row
    ELSE LevOuterLoop(s, t, LevInnerLoop(s[i], t, previous_row, <<i>>), i + 1)

\* Lines 193-207, once len(s1) >= len(s2).
LevOrdered(s, t) ==
    IF Len(t) = 0 THEN Len(s)
    ELSE LET last_row == LevOuterLoop(s, t, PyRange(Len(t) + 1), 1)
         IN  last_row[Len(last_row)]

\* A slip in the base case: the length of the empty string is returned.
LevOrderedWrongBase(s, t) ==
    IF Len(t) = 0 THEN Len(t)
    ELSE LET last_row == LevOuterLoop(s, t, PyRange(Len(t) + 1), 1)
         IN  last_row[Len(last_row)]

calc_levenshtein_distance_wrong_base(a, b) ==
    IF Len(a) < Len(b) THEN LevOrderedWrongBase(b, a) ELSE LevOrderedWrongBase(a, b)

calc_levenshtein_distance(a, b) ==
    IF Len(a) < Len(b) THEN LevOrdered(b, a) ELSE LevOrdered(a, b)

-----------------------------------------------------------------------------
(* Exact rationals for Python's float arithmetic *)

Rat(n, d) == LET g == Gcd(n, d) IN IF n = 0 THEN <<0, 1>> ELSE <<n \div g, d \div g>>
RatAdd(x, y) == Rat(x[1] * y[2] + y[1] * x[2], x[2] * y[2])
RatMul(x, y) == Rat(x[1] * y[1], x[2] * y[2])
RatGT(x, y)  == x[1] * y[2] > y[1] * x[2]
RatGE(x, y)  == x[1] * y[2] >= y[1] * x[2]

-----------------------------------------------------------------------------
(* Python string and list methods used by the code *)

UpperCase == {"A", "B", "C", "D", "E", "F", "G", "H", "I", "J", "K", "L", "M",
              "N", "O", "P", "Q", "R", "S", "T", "U", "V", "W", "X", "Y", "Z"}
LowerOf == [c \in UpperCase |->
    CASE c = "A" -> "a" [] c = "B" -> "b" [] c = "C" -> "c" [] c = "D" -> "d"
      [] c = "E" -> "e" [] c = "F" -> "f" [] c = "G" -> "g" [] c = "H" -> "h"
      [] c = "I" -> "i" [] c = "J" -> "j" [] c = "K" -> "k" [] c = "L" -> "l"
      [] c = "M" -> "m" [] c = "N" -> "n" [] c = "O" -> "o" [] c = "P" -> "p"
      [] c = "Q" -> "q" [] c = "R" -> "r" [] c = "S" -> "s" [] c = "T" -> "t"
      [] c = "U" -> "u" [] c = "V" -> "v" [] c = "W" -> "w" [] c = "X" -> "x"
      [] c = "Y" -> "y" [] c = "Z" -> "z"]

\* str.lower()
PyLower(s) == [k \in 1..Len(s) |-> IF s[k] \in UpperCase THEN LowerOf[s[k]] ELSE s[k]]

\* str.strip(' ')
RECURSIVE PyLStrip(_)
PyLStrip(s) == IF s # << >> /\ Head(s) = " " THEN PyLStrip(Tail(s)) ELSE s
RECURSIVE PyRStrip(_)
PyRStrip(s) ==
    IF s # << >> /\ s[Len(s)] = " " THEN PyRStrip(SubSeq(s, 1, Len(s) - 1)) ELSE s
PyStrip(s) == PyRStrip(PyLStrip(s))

\* str.split(' '): every single space separates, so consecutive spaces and a
\* leading or trailing space give empty words.
PySplit(s) ==
    LET spaces   == {k \in 1..Len(s) : s[k] = " "}
        \* the position of the n-th space; 0 before the first word and
        \* Len(s) + 1 after the last
        SpaceAt(n) == IF n = 0 THEN 0
                      ELSE IF n > Cardinality(spaces) THEN Len(s) + 1
                      ELSE CHOOSE k \in spaces : Cardinality({m \in spaces : m < k}) = n - 1
    IN  [n \in 1..(Cardinality(spaces) + 1) |-> SubSeq(s, SpaceAt(n - 1) + 1, SpaceAt(n) - 1)]

\* str.replace(" ", "")
RemoveSpaces(s) == SelectSeq(s, LAMBDA c : c # " ")

\* s[lo:hi] with Python's 0-based, clamped bounds
PySlice(s, lo, hi) == SubSeq(s, Min2(lo, Len(s)) + 1, Min2(hi, Len(s)))
\* s[lo:]
PySliceFrom(s, lo) == PySlice(s, lo, Len(s))

\* Whether t occurs in s at 1-based position k
OccursAt(s, t, k) == k + Len(t) - 1 <= Len(s) /\ SubSeq(s, k, k + Len(t) - 1) = t
Contains(s, t) == \E k \in 1..Len(s) : OccursAt(s, t, k)

\* str.replace(old, new): the non-overlapping occurrences of old, left to right
RECURSIVE PyReplaceFrom(_, _, _, _, _)
PyReplaceFrom(s, old, new, k, acc) ==
    IF k > Len(s) THEN acc
    ELSE IF OccursAt(s, old, k) THEN PyReplaceFrom(s, old, new, k + Len(old), acc \o new)
    ELSE PyReplaceFrom(s, old, new, k + 1, Append(acc, s[k]))
PyReplace(s, old, new) == PyReplaceFrom(s, old, new, 1, << >>)

\* str.find(char): Python's 0-based position of the first occurrence, or -1
PyFind(s, c) ==
    IF \E k \in 1..Len(s) : s[k] = c
    THEN (CHOOSE k \in 1..Len(s) : s[k] = c /\ \A m \in 1..(k - 1) : s[m] # c) - 1
    ELSE -1

\* The keys of a dict filled from the list ws by update(): each key once, in
\* the order of its first insertion.
RECURSIVE DictKeys(_)
DictKeys(ws) ==
    IF ws = << >> THEN << >>
    ELSE LET init == DictKeys(SubSeq(ws, 1, Len(ws) - 1))
             w    == ws[Len(ws)]
         IN  IF \E k \in 1..Len(init) : init[k] = w THEN init ELSE Append(init, w)

\* list.remove(x): drops the first element equal to x
RECURSIVE ListRemove(_, _)
ListRemove(l, x) ==
    IF l = << >> THEN << >>
    ELSE IF Head(l) = x THEN Tail(l)
    ELSE <<Head(l)>> \o ListRemove(Tail(l), x)


-----------------------------------------------------------------------------
(* class CardType, class CardSet, hearthstone.py lines 324-344 *)

CardType_MINION == "MINION"
CardType_SPELL  == "SPELL"
CardType_WEAPON == "WEAPON"

CardSet_BASIC       == "CORE"
CardSet_CLASSIC     == "EXPERT1"
CardSet_CHEAT       == "CHEAT"
CardSet_CREDITS     == "CREDITS"
CardSet_HERO_SKINS  == "HERO_SKINS"
CardSet_MISSIONS    == "MISSIONS"
CardSet_NONE        == "NONE"
CardSet_TAVERNBRAWL == "TB"

\* Lines 131-132: the default unwanted_sets.
unwanted_sets == {CardSet_CHEAT, CardSet_CREDITS, CardSet_HERO_SKINS,
                  CardSet_MISSIONS, CardSet_NONE, CardSet_TAVERNBRAWL}

\* Line 138: the types that are kept.
wanted_types == {CardType_MINION, CardType_SPELL, CardType_WEAPON}

-----------------------------------------------------------------------------
(* _format_card, hearthstone.py lines 143-184.  A card is a Python dict: a   *)
(* function whose domain is the set of keys the dict has.                    *)

\* Lines 144-151.
replace_html_tag(text, tag, replace) ==
    LET start_tag == <<"<">> \o tag \o <<">">>
        end_tag   == <<"<", "/">> \o tag \o <<">">>
    IN  PyReplace(PyReplace(text, start_tag, replace), end_tag, replace)

\* Lines 153-159.  "\*" is the two characters backslash and asterisk.
RECURSIVE replace_spell_power_char(_)
replace_spell_power_char(text) ==
    LET pos == PyFind(text, "$")
    IN  IF pos = -1 THEN text
        ELSE replace_spell_power_char(
                 PySlice(text, 0, pos) \o <<"\\", "*">> \o PySlice(text, pos + 1, pos + 2)
                 \o <<"\\", "*", " ">> \o PySliceFrom(text, pos + 3))

\* Lines 162-166: what the 'text' field becomes.
format_text(text) ==
    PyReplace(replace_html_tag(replace_html_tag(replace_spell_power_char(text),
                                                <<"b">>, <<"*", "*">>),
                               <<"i">>, <<"*">>),
              <<"\n">>, <<" ">>)

\* The flavor with its newlines left in.
format_flavor_keeps_newlines(text) ==
    replace_html_tag(replace_html_tag(text, <<"b">>, <<"*", "*">>), <<"i">>, <<"*">>)

\* Lines 169-172: what the 'flavor' field becomes.

format_flavor(text) ==
    PyReplace(replace_html_tag(replace_html_tag(text, <<"b">>, <<"*", "*">>),
                               <<"i">>, <<"*">>),
              <<"\n">>, <<" ">>)

\* str.title() on a word of letters: the first letter of each run of letters
\* in upper case, the others in lower case.
IsLetter(c) == c \in UpperCase \/ \E u \in UpperCase : LowerOf[u] = c
UpperOfChar(c) == IF c \in UpperCase THEN c
                  ELSE IF IsLetter(c) THEN CHOOSE u \in UpperCase : LowerOf[u] = c
                  ELSE c
LowerOfChar(c) == IF c \in UpperCase THEN LowerOf[c] ELSE c
PyTitle(s) == [k \in 1..Len(s) |->
                 IF k = 1 \/ ~IsLetter(s[k - 1]) THEN UpperOfChar(s[k]) ELSE LowerOfChar(s[k])]

format_card(c) ==
    LET c1 == IF "text" \in DOMAIN c THEN [c EXCEPT !["text"] = format_text(c["text"])] ELSE c
        c2 == IF "flavor" \in DOMAIN c1
              THEN [c1 EXCEPT !["flavor"] = format_flavor(c1["flavor"])] ELSE c1
        \* lines 174-176
        c3 == IF c2["type"] = CardType_MINION
                 /\ "playerClass" \notin DOMAIN c2 /\ "collectible" \in DOMAIN c2
              THEN [k \in DOMAIN c2 \cup {"playerClass"} |->
                      IF k = "playerClass" THEN <<"N", "e", "u", "t", "r", "a", "l">> ELSE c2[k]]
              ELSE c2
        \* lines 177-178
        c4 == IF "playerClass" \in DOMAIN c3
              THEN [c3 EXCEPT !["playerClass"] = PyTitle(c3["playerClass"])] ELSE c3
        \* lines 179-184
    IN  IF "set" \in DOMAIN c4
        THEN IF c4["set"] = CardSet_BASIC THEN [c4 EXCEPT !["set"] = "Basic"]
             ELSE IF c4["set"] = CardSet_CLASSIC THEN [c4 EXCEPT !["set"] = "Classic"]
             ELSE c4
        ELSE c4

-----------------------------------------------------------------------------
(* _clean_cards_dict, hearthstone.py lines 127-141 *)

\* Lines 134-139: whether the loop removes this card.
Unwanted(c) == c["set"] \in unwanted_sets \/ c["type"] \notin wanted_types

\* Lines 133-139: the loop over the deep copy, removing from the list itself.
RECURSIVE CleanLoop(_, _, _)
CleanLoop(cards_copy, k, l) ==
    IF k > Len(cards_copy) THEN l
    ELSE IF Unwanted(cards_copy[k]) THEN CleanLoop(cards_copy, k + 1, ListRemove(l, cards_copy[k]))
    ELSE CleanLoop(cards_copy, k + 1, l)

\* The loop run over the list it removes from: Python's list iterator keeps
\* an index, so the element after a removed one is skipped.
RECURSIVE CleanLoopInPlace(_, _)
CleanLoopInPlace(l, k) ==
    IF k > Len(l) THEN l
    ELSE IF Unwanted(l[k]) THEN CleanLoopInPlace(ListRemove(l, l[k]), k + 1)
    ELSE CleanLoopInPlace(l, k + 1)

clean_cards_dict_in_place(l) ==
    LET kept == CleanLoopInPlace(l, 1)
    IN  [k \in 1..Len(kept) |-> format_card(kept[k])]

clean_cards_dict(l) ==
    LET kept == CleanLoop(l, 1, l)
    IN  [k \in 1..Len(kept) |-> format_card(kept[k])]


-----------------------------------------------------------------------------
(* _find_card, hearthstone.py lines 187-255 *)

PyNone == [kind |-> "None"]
ZeroDivisionError == [kind |-> "ZeroDivisionError"]
Ok(v) == [kind |-> "ok", val |-> v]

\* The distance divided by the sum of the lengths instead of the longer one.
WordMatchBySum(search_word, card_word) ==
    LET total == Len(search_word) + Len(card_word)
    IN  IF total = 0 THEN ZeroDivisionError
        ELSE Ok(Rat(total - calc_levenshtein_distance(search_word, card_word), total))

\* Line 227: 1 - distance / max(len, len); the division raises when both
\* words are empty.
WordMatch(search_word, card_word) ==
    LET longest == Max2(Len(search_word), Len(card_word))
    IN  IF longest = 0 THEN ZeroDivisionError
        ELSE Ok(Rat(longest - calc_levenshtein_distance(search_word, card_word), longest))

\* Lines 220-221: the keys of search_words.
SearchWords(q) == DictKeys(PySplit(q))

\* Lines 225-231: the keys of search_words[search_word], the same for every
\* search word.
CardWords(name) == DictKeys(PySplit(name))

\* Lines 235-241: the first key with the greatest match; k is the position in
\* the keys, max_value_key the best key so far.
RECURSIVE MaxValueKey(_, _, _, _)
MaxValueKey(search_word, keys, k, max_value_key) ==
    IF k > Len(keys) THEN max_value_key
    ELSE IF RatGT(WordMatch(search_word, keys[k]).val, WordMatch(search_word, max_value_key).val)
         THEN MaxValueKey(search_word, keys, k + 1, keys[k])
         ELSE MaxValueKey(search_word, keys, k + 1, max_value_key)

\* Lines 243-246: what one search word adds to percent_match.
WordShare(search_word, q, name) ==
    LET keys          == CardWords(name)
        max_value_key == MaxValueKey(search_word, keys, 1, keys[1])
        match         == WordMatch(search_word, max_value_key).val
        percent_test_string_match == Rat(Len(max_value_key), Len(RemoveSpaces(name)))
        percent_string_match      == Rat(Len(search_word), Len(RemoveSpaces(q)))
    IN  RatAdd(RatMul(RatMul(percent_string_match, match), <<3, 4>>),
               RatMul(RatMul(percent_test_string_match, match), <<1, 4>>))

\* Lines 233-246: the sum over the words ws, from percent_match = 0.0.
RECURSIVE SumShares(_, _, _)
SumShares(ws, q, name) ==
    IF ws = << >> THEN <<0, 1>>
    ELSE RatAdd(SumShares(SubSeq(ws, 1, Len(ws) - 1), q, name), WordShare(ws[Len(ws)], q, name))

\* Lines 214-246 for one card: percent_match, or the ZeroDivisionError of
\* line 227 (an empty search word meets an empty card word) or of line 243
\* (the name has nothing but spaces).  q is the stripped, lowered query.
PercentMatch(q, card_name) ==
    LET name         == PyLower(card_name)
        search_words == SearchWords(q)
        card_words   == PySplit(name)
    IN  IF \E a \in 1..Len(search_words), b \in 1..Len(card_words) :
              search_words[a] = << >> /\ card_words[b] = << >>
        THEN ZeroDivisionError
        ELSE IF Len(RemoveSpaces(name)) = 0 THEN ZeroDivisionError
        ELSE Ok(SumShares(search_words, q, name))

\* Line 254: list.sort(key, reverse=True) is stable: r goes after every entry
\* whose key is at least its own.
RECURSIVE InsertByScore(_, _)
InsertByScore(sorted, r) ==
    IF sorted = << >> THEN <<r>>
    ELSE IF RatGE(Head(sorted)[2], r[2]) THEN <<Head(sorted)>> \o InsertByScore(Tail(sorted), r)
    ELSE <<r>> \o sorted
RECURSIVE SortByScore(_)
SortByScore(results) ==
    IF results = << >> THEN << >>
    ELSE InsertByScore(SortByScore(SubSeq(results, 1, Len(results) - 1)), results[Len(results)])

\* Lines 213-249: the loop over self.cards from position k; results so far.
RECURSIVE FindLoop(_, _, _, _, _)
FindLoop(cs, q, min, k, results) ==
    IF k > Len(cs) THEN Ok(results)
    ELSE LET percent_match == PercentMatch(q, cs[k]["name"])
         IN  IF percent_match.kind # "ok" THEN percent_match
             ELSE IF RatGE(percent_match.val, min)
                  THEN FindLoop(cs, q, min, k + 1, Append(results, <<cs[k], percent_match.val>>))
                  ELSE FindLoop(cs, q, min, k + 1, results)

\* The whole of _find_card: None, the card found, or the exception raised.
find_card(cs, raw_query, min) ==
    LET q == PyLower(PyStrip(raw_query))
    IN  IF Len(q) < 1 THEN PyNone
        ELSE LET found == FindLoop(cs, q, min, 1, << >>)
             IN  IF found.kind # "ok" THEN found
                 ELSE IF Len(found.val) < 1 THEN PyNone
                 ELSE [kind |-> "card", card |-> SortByScore(found.val)[1][1]]


-----------------------------------------------------------------------------
(* The cards file and the server: _get_server_mod_time, _download_card_json, *)
(* _load_card_json, _save_card_json, _set_cards; hearthstone.py lines 72-125 *)

MaxTime    == 4   \* the clock stops here
MaxRuns    == 3   \* runs of _set_cards in one behaviour
MaxVersion == 2   \* card arrays the server publishes

\* A Python value that json can dump: None or a list of cards (which one is
\* told by its version).
PyList(v) == [kind |-> "list", version |-> v]
FileNotFoundError == [kind |-> "FileNotFoundError"]

\* json.dump and json.loads on these values.
JsonNull     == [json |-> "null", version |-> 0]
JsonArray(v) == [json |-> "array", version |-> v]
NoFile       == [json |-> "", version |-> 0]
JsonDump(v)  == IF v.kind = "None" THEN JsonNull ELSE JsonArray(v.version)
JsonLoads(t) == IF t.json = "null" THEN PyNone ELSE PyList(t.version)

\* Lines 72-82: the Last-Modified of the server, 0 when the request fails.
get_server_mod_time(head_ok) == IF head_ok THEN remoteTime ELSE 0

\* Lines 84-93: the card array, None when the request fails.
download_card_json(get_ok) == IF get_ok THEN PyList(remoteVersion) ELSE PyNone

\* Lines 111-115: st_mtime, 0 when os.stat raises.
stat_local_time == IF fileExists THEN fileTime ELSE 0

\* The test with the equal times sent to the download as well.
OutOfDateOrSame(server, local) == server >= local

\* Line 119.
OutOfDate(server, local) == server > local

\* One call of _set_cards (lines 108-125).  head_ok and get_ok are the
\* outcomes of the two requests.
SetCards(head_ok, get_ok) ==
    /\ runs < MaxRuns
    /\ runs' = runs + 1
    /\ local_time' = stat_local_time
    /\ server_time' = get_server_mod_time(head_ok)
    /\ IF OutOfDate(server_time', local_time')
       THEN \* lines 120-121: download, then save whatever came back
            /\ io' = <<"download", "save">>
            /\ set_cards_ret' = download_card_json(get_ok)
            /\ fileExists' = TRUE
            /\ fileContent' = JsonDump(set_cards_ret')
            /\ fileTime' = now
       ELSE \* line 123: load the local file; open() raises when it is missing
            /\ io' = <<"load">>
            /\ set_cards_ret' = IF fileExists THEN JsonLoads(fileContent) ELSE FileNotFoundError
            /\ UNCHANGED <<fileExists, fileContent, fileTime>>
    /\ UNCHANGED <<now, remoteTime, remoteVersion>>
    /\ UNCHANGED <<levVars, indexVars, formatVars>>

\* The environment: time passes.
Tick ==
    /\ now < MaxTime
    /\ now' = now + 1
    /\ UNCHANGED <<fileExists, fileTime, fileContent, remoteTime, remoteVersion,
                   local_time, server_time, io, set_cards_ret, runs>>
    /\ UNCHANGED <<levVars, indexVars, formatVars>>

\* The environment: the server publishes a new card array.
Publish ==
    /\ remoteVersion < MaxVersion
    /\ remoteTime < now
    /\ remoteVersion' = remoteVersion + 1
    /\ remoteTime' = now
    /\ UNCHANGED <<now, fileExists, fileTime, fileContent,
                   local_time, server_time, io, set_cards_ret, runs>>
    /\ UNCHANGED <<levVars, indexVars, formatVars>>

-----------------------------------------------------------------------------
(* The inputs the specifications draw from *)

MaxLevLen  == 3   \* length of the words given to calc_levenshtein_distance
MaxRaw     == 3   \* length of the raw list given to _clean_cards_dict
MaxCards   == 2   \* length of the card list searched by _find_card
MaxTextLen == 4   \* length of a raw text or flavor

LevAlphabet    == {"a", "b"}
MarkupAlphabet == {"$", "<", "/", "b", "i", ">", "\n"}

RECURSIVE ListsUpTo(_, _)
ListsUpTo(S, n) ==
    IF n = 0 THEN {<< >>}
    ELSE LET shorter == ListsUpTo(S, n - 1)
         IN  shorter \cup {Append(l, x) : l \in shorter, x \in S}

Raw(name, type, set) == [name |-> name, type |-> type, set |-> set]

Ragnaros == <<"R", "a", "g", "n", "a", "r", "o", "s", " ", "t", "h", "e", " ",
              "F", "i", "r", "e", "l", "o", "r", "d">>
regnaros == <<"r", "e", "g", "n", "a", "r", "o", "s">>
ragnaros == <<"r", "a", "g", "n", "a", "r", "o", "s">>

\* Raw records for _clean_cards_dict: kept ones, and ones of every unwanted
\* set and of unwanted types.
CleanDomain ==
    {Raw(<<"a">>, CardType_MINION, "GVG"),
     Raw(<<"b">>, CardType_SPELL, CardSet_BASIC),
     Raw(<<"b">>, CardType_WEAPON, CardSet_CLASSIC),
     Raw(<<"a">>, "HERO", "GVG"),
     Raw(<<"b">>, "ENCHANTMENT", CardSet_TAVERNBRAWL)}
    \cup {Raw(<<"a">>, CardType_MINION, x) : x \in unwanted_sets}
CleanQueries == {<<"a">>, <<"b">>, <<"c">>}

\* Cards for _find_card: names that tie, names with an empty word (a trailing
\* or a doubled space), upper case.
FindNames == {<<"a">>, <<"A">>, <<"a", "b">>, <<"a", " ", "b">>, <<"b", " ", "a">>,
              <<"a", " ">>, <<"a", " ", " ", "b">>, Ragnaros}
FindDomain == {Raw(n, CardType_MINION, "GVG") : n \in FindNames}
Queries == {<< >>, <<"a">>, <<"b">>, <<"A">>, <<"a", "b">>, <<"a", " ", "b">>,
            <<"a", " ", "a">>, <<"a", " ", " ", "b">>, <<" ", "a", " ">>,
            regnaros, ragnaros}
DefaultMinMatch == <<3, 4>>     \* line 13: min_match=0.75
MinMatches == {DefaultMinMatch, <<1, 2>>, <<1, 1>>}

-----------------------------------------------------------------------------
(* The operations as actions *)

\* calc_levenshtein_distance(s1, s2) is called and returns.
LevCall ==
    /\ lev_pc = "call"
    /\ dist' = calc_levenshtein_distance(s1, s2)
    /\ lev_pc' = "returned"
    /\ UNCHANGED <<s1, s2>>
    /\ UNCHANGED <<cacheVars, indexVars, formatVars>>

\* Line 23: self._clean_cards_dict(self.cards).
Clean ==
    /\ index_pc = "raw"
    /\ cards' = clean_cards_dict(cards)
    /\ index_pc' = "clean"
    /\ UNCHANGED <<raw_cards, query, min_match, result>>
    /\ UNCHANGED <<cacheVars, levVars, formatVars>>

\* Lines 281, 313: a lookup on the cleaned cards.
Find(q, m) ==
    /\ index_pc = "clean"
    /\ query' = q
    /\ min_match' = m
    /\ result' = find_card(cards, q, m)
    /\ index_pc' = "found"
    /\ UNCHANGED <<raw_cards, cards>>
    /\ UNCHANGED <<cacheVars, levVars, formatVars>>

\* Line 141: self._format_card(card) on one card.
FormatCard ==
    /\ format_pc = "raw"
    /\ card' = format_card(card)
    /\ format_pc' = "formatted"
    /\ UNCHANGED raw_card
    /\ UNCHANGED <<cacheVars, levVars, indexVars>>

-----------------------------------------------------------------------------
(* The specifications *)

CacheIdle ==
    /\ now = 2 /\ fileExists = FALSE /\ fileTime = 0 /\ fileContent = NoFile
    /\ remoteTime = 1 /\ remoteVersion = 1
    /\ local_time = 0 /\ server_time = 0 /\ io = << >> /\ set_cards_ret = PyNone /\ runs = 0
LevIdle == s1 = << >> /\ s2 = << >> /\ dist = 0 /\ lev_pc = "idle"
IndexIdle ==
    /\ raw_cards = << >> /\ cards = << >> /\ index_pc = "idle"
    /\ query = << >> /\ min_match = DefaultMinMatch /\ result = PyNone
FormatIdle ==
    /\ raw_card = Raw(<< >>, CardType_SPELL, "GVG") /\ card = raw_card /\ format_pc = "idle"

\* The cog starts with or without a cards file, older or newer than the
\* server's; then _set_cards runs while time passes and the server publishes.
InitCache ==
    /\ now = 2
    /\ fileExists \in BOOLEAN
    /\ fileTime \in (IF fileExists THEN 1..2 ELSE {0})
    /\ fileContent = (IF fileExists THEN JsonArray(1) ELSE NoFile)
    /\ remoteTime \in 1..2
    /\ remoteVersion = 1
    /\ local_time = 0 /\ server_time = 0 /\ io = << >> /\ set_cards_ret = PyNone /\ runs = 0
    /\ LevIdle /\ IndexIdle /\ FormatIdle
NextCache == (\E head_ok \in BOOLEAN, get_ok \in BOOLEAN : SetCards(head_ok, get_ok))
                \/ Tick \/ Publish
SpecCache == InitCache /\ [][NextCache]_vars

InitLev ==
    /\ s1 \in StringsUpTo(LevAlphabet, MaxLevLen)
    /\ s2 \in StringsUpTo(LevAlphabet, MaxLevLen)
    /\ dist = 0 /\ lev_pc = "call"
    /\ CacheIdle /\ IndexIdle /\ FormatIdle
NextLev == LevCall
SpecLev == InitLev /\ [][NextLev]_vars

InitClean ==
    /\ raw_cards \in ListsUpTo(CleanDomain, MaxRaw)
    /\ cards = raw_cards /\ index_pc = "raw"
    /\ query = << >> /\ min_match = DefaultMinMatch /\ result = PyNone
    /\ CacheIdle /\ LevIdle /\ FormatIdle
NextClean == Clean \/ (\E q \in CleanQueries : Find(q, DefaultMinMatch))
SpecClean == InitClean /\ [][NextClean]_vars

InitFind ==
    /\ raw_cards \in ListsUpTo(FindDomain, MaxCards)
    /\ cards = raw_cards /\ index_pc = "raw"
    /\ query = << >> /\ min_match = DefaultMinMatch /\ result = PyNone
    /\ CacheIdle /\ LevIdle /\ FormatIdle
NextFind == Clean \/ (\E q \in Queries, m \in MinMatches : Find(q, m))
SpecFind == InitFind /\ [][NextFind]_vars

\* A card with a text, a flavor or both (then the same raw string).
WithText(c, t)   == [k \in DOMAIN c \cup {"text"} |-> IF k = "text" THEN t ELSE c[k]]
WithFlavor(c, t) == [k \in DOMAIN c \cup {"flavor"} |-> IF k = "flavor" THEN t ELSE c[k]]
InitFormat ==
    /\ \E t \in StringsUpTo(MarkupAlphabet, MaxTextLen) :
          LET base == Raw(<<"a">>, CardType_SPELL, "GVG")
          IN  raw_card \in {WithText(base, t), WithFlavor(base, t), WithFlavor(WithText(base, t), t)}
    /\ card = raw_card /\ format_pc = "raw"
    /\ CacheIdle /\ LevIdle /\ IndexIdle
NextFormat == FormatCard
SpecFormat == InitFormat /\ [][NextFormat]_vars


-----------------------------------------------------------------------------
(* Properties of _set_cards, checked under SpecCache *)

C2_LocalMissingForcesFetch ==
    (runs > 0 /\ local_time = 0) => io = <<"download", "save">>

\* C10: once the cards file holds a card array it keeps holding one, whatever
\* the downloads of later runs do.
ValidCache == fileExists /\ fileContent.json = "array"
C10_FailedDownloadKeepsCache == [][ValidCache => ValidCache']_vars

-----------------------------------------------------------------------------
(* Properties of calc_levenshtein_distance, checked under SpecLev *)

\* The Levenshtein distance by its definition: the fewest insertions,
\* deletions and substitutions, each of cost 1.
RECURSIVE Levenshtein(_, _)
Levenshtein(a, b) ==
    IF a = << >> THEN Len(b)
    ELSE IF b = << >> THEN Len(a)
    ELSE Min3(Levenshtein(Tail(a), b) + 1,
              Levenshtein(a, Tail(b)) + 1,
              Levenshtein(Tail(a), Tail(b)) + (IF Head(a) = Head(b) THEN 0 ELSE 1))

\* C7: the distance returned is the Levenshtein distance; it is 0 for equal
\* words, the same with the words exchanged, and the length of the other word
\* when one word is empty.
C7_LevenshteinDistance ==
    lev_pc = "returned" =>
        /\ dist = Levenshtein(s1, s2)
        /\ (s1 = s2 => dist = 0)
        /\ dist = calc_levenshtein_distance(s2, s1)
        /\ (s1 = << >> => dist = Len(s2))
        /\ (s2 = << >> => dist = Len(s1))

\* The shorter word came first, and the distance needed more than insertions.
C7_Witness ==
    /\ lev_pc = "returned" /\ s1 # << >> /\ Len(s1) < Len(s2)
    /\ dist > Len(s2) - Len(s1)

-----------------------------------------------------------------------------
(* Properties of _clean_cards_dict, checked under SpecClean *)

\* C4: after cleaning, every card has a kept type and a set outside the
\* unwanted ones, so no lookup returns an unwanted record; and the cards are
\* exactly the raw records that are not unwanted, in their order, formatted.
C4_CleanKeepsOnlyWanted ==
    LET Kept(c) == /\ c["type"] \in {"MINION", "SPELL", "WEAPON"}
                   /\ c["set"] \notin {"CHEAT", "CREDITS", "HERO_SKINS", "MISSIONS", "NONE", "TB"}
        wanted  == SelectSeq(raw_cards, Kept)
    IN  index_pc \in {"clean", "found"} =>
            /\ \A k \in 1..Len(cards) : Kept(cards[k])
            /\ (result.kind = "card" => Kept(result.card))
            /\ cards = [k \in 1..Len(wanted) |-> format_card(wanted[k])]

\* Two equal unwanted records side by side before a kept one, which a lookup
\* then returns.
C4_Witness ==
    /\ index_pc = "found" /\ result.kind = "card"
    /\ Len(raw_cards) = 3 /\ raw_cards[1] = raw_cards[2]
    /\ Unwanted(raw_cards[1]) /\ ~Unwanted(raw_cards[3])
    /\ Len(cards) = 1

-----------------------------------------------------------------------------
(* Properties of _find_card, checked under SpecFind *)

\* The query as line 210 leaves it, and the result of lines 214-246 for the
\* k-th card.
StrippedQuery == PyLower(PyStrip(query))
ScoreOf(k) == PercentMatch(StrippedQuery, cards[k]["name"])

\* C3: for a non-empty query the lookup returns None exactly when no card
\* scores at least min_match, and otherwise the first card of the collection
\* among those with the greatest score.
C3_BestMatchSelection ==
    (index_pc = "found" /\ Len(StrippedQuery) >= 1) =>
        /\ result.kind \in {"None", "card"}
        /\ (result.kind = "None") <=>
               (\A k \in 1..Len(cards) : ~RatGE(ScoreOf(k).val, min_match))
        /\ result.kind = "card" =>
               \E k \in 1..Len(cards) :
                   /\ result.card = cards[k]
                   /\ RatGE(ScoreOf(k).val, min_match)
                   /\ \A j \in 1..Len(cards) : RatGE(ScoreOf(k).val, ScoreOf(j).val)
                   /\ \A j \in 1..(k - 1) : RatGT(ScoreOf(k).val, ScoreOf(j).val)

\* The selection of C3 on the lookups in which no card raises.
SelectionWhenNoCardRaises ==
    (/\ index_pc = "found" /\ Len(StrippedQuery) >= 1
     /\ \A k \in 1..Len(cards) : ScoreOf(k).kind = "ok")
        => C3_BestMatchSelection

\* C5, as stated: "regnaros" scores at least 0.75 against "Ragnaros the
\* Firelord", and the lookup with min_match 0.75 returns that card when it is
\* the only one.
TypoLookup ==
    /\ index_pc = "found" /\ StrippedQuery = regnaros /\ min_match = DefaultMinMatch
    /\ Len(cards) = 1 /\ cards[1]["name"] = Ragnaros
C5_TypoScoresAtLeastThreshold ==
    TypoLookup => /\ RatGE(ScoreOf(1).val, <<3, 4>>)
                  /\ result = [kind |-> "card", card |-> cards[1]]

\* C5, amended: "regnaros" scores 0.75 * 7/8 + 0.25 * 8/19 * 7/8 = 455/608
\* against "Ragnaros the Firelord", which is below 0.75, and the lookup with
\* min_match 0.75 returns None when that card is the only one.
C5_TypoScoresBelowThreshold ==
    TypoLookup => /\ ScoreOf(1) = Ok(<<455, 608>>)
                  /\ ~RatGE(ScoreOf(1).val, <<3, 4>>)
                  /\ result = PyNone
C5_Witness == TypoLookup

\* C6: when the query and a card name both have an empty word, the lookup
\* takes their similarity as 1 and completes instead of dividing by zero.
HasEmptyWord(s) == \E k \in 1..Len(PySplit(s)) : PySplit(s)[k] = << >>
C6_EmptyWordsComplete ==
    (/\ index_pc = "found" /\ Len(StrippedQuery) >= 1
     /\ HasEmptyWord(StrippedQuery)
     /\ \E k \in 1..Len(cards) : HasEmptyWord(PyLower(cards[k]["name"])))
        => result.kind # "ZeroDivisionError"

\* C9: the score is the sum over every word of the split query, each
\* occurrence counted, of 0.75 * (len(q) / len(query without spaces)) * s
\* + 0.25 * (len(m) / len(name without spaces)) * s, m being the first word of
\* the name with the greatest similarity s to q.
FirstBestWord(q, name_words) ==
    LET best(k) == \A j \in 1..Len(name_words) :
                       /\ RatGE(WordMatch(q, name_words[k]).val, WordMatch(q, name_words[j]).val)
                       /\ (j < k => RatGT(WordMatch(q, name_words[k]).val,
                                          WordMatch(q, name_words[j]).val))
    IN  name_words[CHOOSE k \in 1..Len(name_words) : best(k)]
RECURSIVE SumOverOccurrences(_, _, _)
SumOverOccurrences(ws, q, name) ==
    IF ws = << >> THEN <<0, 1>>
    ELSE LET w == Head(ws)
             m == FirstBestWord(w, PySplit(name))
             s == WordMatch(w, m).val
         IN  RatAdd(RatAdd(RatMul(RatMul(<<3, 4>>, Rat(Len(w), Len(RemoveSpaces(q)))), s),
                           RatMul(RatMul(<<1, 4>>, Rat(Len(m), Len(RemoveSpaces(name)))), s)),
                    SumOverOccurrences(Tail(ws), q, name))
C9_ScoreSumsOverAllWords ==
    (index_pc = "found" /\ Len(StrippedQuery) >= 1) =>
        \A k \in 1..Len(cards) :
            ScoreOf(k).kind = "ok" =>
                ScoreOf(k).val = SumOverOccurrences(PySplit(StrippedQuery), StrippedQuery,
                                                    PyLower(cards[k]["name"]))

-----------------------------------------------------------------------------
(* Properties of _format_card, checked under SpecFormat *)

NoTags(t) == /\ ~Contains(t, <<"<", "b", ">">>) /\ ~Contains(t, <<"<", "/", "b", ">">>)
             /\ ~Contains(t, <<"<", "i", ">">>) /\ ~Contains(t, <<"<", "/", "i", ">">>)
NoNewline(t) == ~Contains(t, <<"\n">>)
NoDollar(t)  == ~Contains(t, <<"$">>)

\* C8, as stated: the formatted text and the formatted flavor hold no $, no
\* <b>, </b>, <i>, </i> and no newline, and equal raw strings give equal
\* text and flavor.
C8_SameMarkupBothFields ==
    format_pc = "formatted" =>
        /\ "text" \in DOMAIN card =>
               NoDollar(card["text"]) /\ NoTags(card["text"]) /\ NoNewline(card["text"])
        /\ "flavor" \in DOMAIN card =>
               NoDollar(card["flavor"]) /\ NoTags(card["flavor"]) /\ NoNewline(card["flavor"])
        /\ ({"text", "flavor"} \subseteq DOMAIN card /\ raw_card["text"] = raw_card["flavor"])
               => card["text"] = card["flavor"]

\* C8, amended: the formatted text holds no $, no tag and no newline; the
\* formatted flavor holds no tag and no newline, its $ being left alone; equal
\* raw strings without a $ give equal text and flavor.
C8_MarkupRemoved ==
    format_pc = "formatted" =>
        /\ "text" \in DOMAIN card =>
               NoDollar(card["text"]) /\ NoTags(card["text"]) /\ NoNewline(card["text"])
        /\ "flavor" \in DOMAIN card =>
               /\ NoTags(card["flavor"]) /\ NoNewline(card["flavor"])
               /\ NoDollar(card["flavor"]) <=> NoDollar(raw_card["flavor"])
        /\ ({"text", "flavor"} \subseteq DOMAIN card /\ raw_card["text"] = raw_card["flavor"]
                /\ NoDollar(raw_card["text"]))
               => card["text"] = card["flavor"]

\* The same raw string with a tag and a $ in both fields: the $ is gone from
\* the text and still in the flavor.
C8_Witness ==
    /\ format_pc = "formatted" /\ {"text", "flavor"} \subseteq DOMAIN card
    /\ raw_card["text"] = raw_card["flavor"]
    /\ Contains(raw_card["text"], <<"<", "b", ">">>) /\ ~NoDollar(raw_card["text"])
    /\ NoDollar(card["text"]) /\ ~NoDollar(card["flavor"])


====
